---- MODULE Spec2Model ----
(***************************************************************************)
(* A model of BlogMain.py: the RSS ingestion service.  One main thread     *)
(* re-creates the store (init_db) and starts the scheduler thread          *)
(* (schedule_updates), which runs fetch_blog_posts once and then every     *)
(* period; request handler threads run search.  All store access goes      *)
(* through db_lock.                                                        *)
(*                                                                         *)
(* Text is a sequence of code points, so that the regular expressions,     *)
(* str.lower, str.strip and SQL LIKE are computed character by character.  *)
(***************************************************************************)
EXTENDS Integers, Sequences, FiniteSets, TLC

(***************************************************************************)
(* Bounds of the model.                                                    *)
(***************************************************************************)
\* number of feed URLs listed in RSSFeeds.txt
NumFeeds == 2
\* largest number of entries one parsed feed holds
MaxEntries == 2
\* number of request handler threads of the Flask server
NumHandlers == 1
\* largest rowid of the store (SQLite: 2^63 - 1); an INSERT beyond it fails
MaxRowid == 2

(***************************************************************************)
(* Characters and strings.                                                 *)
(***************************************************************************)
\* "x" in s, for strings: s holds sub as a contiguous run of characters
Contains(s, sub) ==
  \E i \in 0..(Len(s) - Len(sub)) :
     \A j \in 1..Len(sub) : s[i + j] = sub[j]

\* the character class [\x00-\x7F] of the two re.sub calls of extract_feed_entry
IsAscii(c) == c >= 0 /\ c <= 127

\* re.sub(r'[^\x00-\x7F]+', '', s)
StripNonAscii(s) == SelectSeq(s, IsAscii)

\* str.lower on one character (the texts it is applied to are ASCII)
LowerChar(c) == IF c >= 65 /\ c <= 90 THEN c + 32 ELSE c

\* str.lower
Lower(s) == [i \in 1..Len(s) |-> LowerChar(s[i])]

\* \w of Python's re on str: letters, digits, underscore (and non-ASCII letters)
IsWordChar(c) ==
  \/ c >= 48 /\ c <= 57
  \/ c >= 65 /\ c <= 90
  \/ c >= 97 /\ c <= 122
  \/ c = 95
  \/ c >= 192 /\ c <= 255 /\ c # 215 /\ c # 247

\* \s of Python's re on str, and the characters str.strip removes
IsSpaceChar(c) == (c >= 9 /\ c <= 13) \/ (c >= 28 /\ c <= 32)

\* str.join over a sequence of strings
RECURSIVE Join(_, _)
Join(sep, parts) ==
  IF Len(parts) = 0 THEN <<>>
  ELSE IF Len(parts) = 1 THEN parts[1]
  ELSE parts[1] \o sep \o Join(sep, Tail(parts))

\* str.strip
RECURSIVE LStrip(_)
LStrip(s) == IF Len(s) > 0 /\ IsSpaceChar(s[1]) THEN LStrip(Tail(s)) ELSE s

RECURSIVE RStrip(_)
RStrip(s) ==
  IF Len(s) > 0 /\ IsSpaceChar(s[Len(s)]) THEN RStrip(SubSeq(s, 1, Len(s) - 1)) ELSE s

Strip(s) == RStrip(LStrip(s))

(***************************************************************************)
(* Enrichment: analyze_sentiment, identify_sector, extract_keywords.       *)
(***************************************************************************)
\* the sectors dict of identify_sector, in insertion order
sectors ==
  <<
     [sector |-> "Defense", keywords |-> <<
         (* military *) <<109,105,108,105,116,97,114,121>>,
         (* army *) <<97,114,109,121>>,
         (* navy *) <<110,97,118,121>>,
         (* defense *) <<100,101,102,101,110,115,101>> >>],
     [sector |-> "Government", keywords |-> <<
         (* policy *) <<112,111,108,105,99,121>>,
         (* election *) <<101,108,101,99,116,105,111,110>>,
         (* government *) <<103,111,118,101,114,110,109,101,110,116>>,
         (* minister *) <<109,105,110,105,115,116,101,114>> >>],
     [sector |-> "Sports", keywords |-> <<
         (* football *) <<102,111,111,116,98,97,108,108>>,
         (* cricket *) <<99,114,105,99,107,101,116>>,
         (* Olympics *) <<79,108,121,109,112,105,99,115>>,
         (* sports *) <<115,112,111,114,116,115>> >>],
     [sector |-> "Crime", keywords |-> <<
         (* crime *) <<99,114,105,109,101>>,
         (* murder *) <<109,117,114,100,101,114>>,
         (* theft *) <<116,104,101,102,116>>,
         (* fraud *) <<102,114,97,117,100>> >>],
     [sector |-> "Entertainment", keywords |-> <<
         (* movie *) <<109,111,118,105,101>>,
         (* film *) <<102,105,108,109>>,
         (* actor *) <<97,99,116,111,114>>,
         (* celebrity *) <<99,101,108,101,98,114,105,116,121>> >>],
     [sector |-> "Financial", keywords |-> <<
         (* stocks *) <<115,116,111,99,107,115>>,
         (* market *) <<109,97,114,107,101,116>>,
         (* finance *) <<102,105,110,97,110,99,101>>,
         (* investment *) <<105,110,118,101,115,116,109,101,110,116>> >>],
     [sector |-> "Energy", keywords |-> <<
         (* oil *) <<111,105,108>>,
         (* gas *) <<103,97,115>>,
         (* energy *) <<101,110,101,114,103,121>>,
         (* renewable *) <<114,101,110,101,119,97,98,108,101>> >>],
     [sector |-> "Technology", keywords |-> <<
         (* cybersecurity *) <<99,121,98,101,114,115,101,99,117,114,105,116,121>>,
         (* microsoft *) <<109,105,99,114,111,115,111,102,116>>,
         (* network *) <<110,101,116,119,111,114,107>>,
         (* data science *) <<100,97,116,97,32,115,99,105,101,110,99,101>>,
         (* machine learning *) <<109,97,99,104,105,110,101,32,108,101,97,114,110,105,110,103>>,
         (* information technology *) <<105,110,102,111,114,109,97,116,105,111,110,32,116,101,99,104,110,111,108,111,103,121>>,
         (* technology *) <<116,101,99,104,110,111,108,111,103,121>>,
         (* artificial intelligence *) <<97,114,116,105,102,105,99,105,97,108,32,105,110,116,101,108,108,105,103,101,110,99,101>> >>]
  >>

\* identify_sector(text): the first sector one of whose keywords is in text.lower()
RECURSIVE FirstSector(_, _)
FirstSector(text_lower, i) ==
  IF i > Len(sectors) THEN "General"
  ELSE IF \E k \in 1..Len(sectors[i].keywords) :
             Contains(text_lower, sectors[i].keywords[k])
       THEN sectors[i].sector
       ELSE FirstSector(text_lower, i + 1)

identify_sector(text) == FirstSector(Lower(text), 1)

\* analyze_sentiment: the sign of the polarity TextBlob gives the text
analyze_sentiment(polarity) ==
  IF polarity > 0 THEN "Positive"
  ELSE IF polarity < 0 THEN "Negative"
  ELSE "Neutral"

\* the bucket extract_keywords puts an entity of this label in
Bucket(label) ==
  IF label \in {"GPE", "LOC"} THEN "places"
  ELSE IF label = "PERSON" THEN "names"
  ELSE IF label \in {"ORG", "NORP"} THEN "countries"
  ELSE "other_keywords"

\* the texts of the entities of ents that fall in bucket, in document order
RECURSIVE EntTexts(_, _)
EntTexts(ents, bucket) ==
  IF Len(ents) = 0 THEN <<>>
  ELSE (IF Bucket(ents[1].label) = bucket THEN <<ents[1].text>> ELSE <<>>)
         \o EntTexts(Tail(ents), bucket)

\* extract_keywords, given doc.ents
extract_keywords(ents) ==
  [countries      |-> EntTexts(ents, "countries"),
   places         |-> EntTexts(ents, "places"),
   names          |-> EntTexts(ents, "names"),
   other_keywords |-> EntTexts(ents, "other_keywords")]

(***************************************************************************)
(* The external capabilities, as deterministic stand-ins over the text.    *)
(***************************************************************************)
\* TextBlob(text).sentiment.polarity, as a sign
Polarity(text) ==
  IF Contains(Lower(text), <<111,105,108>>) THEN 1        \* "oil"
  ELSE IF Contains(Lower(text), <<112,105,99>>) THEN 0 - 1 \* "pic"
  ELSE 0

\* nlp(text).ents, as a sequence of (text, label)
Ents(text) ==
  IF Contains(text, <<79,108,121>>)                        \* "Oly"
  THEN << [text |-> "Paris", label |-> "GPE"], [text |-> "2024", label |-> "DATE"],
          [text |-> "IOC", label |-> "ORG"] >>
  ELSE IF Contains(text, <<65,114,109,121>>)               \* "Army"
  THEN << [text |-> "Ann", label |-> "PERSON"] >>
  ELSE << >>

(***************************************************************************)
(* Raw feed entries, as feedparser gives them: a mapping from the fields   *)
(* the entry has to their values.                                          *)
(***************************************************************************)
\* the fields of an entry other than its publication date
Body(b) ==
  CASE b = 1 ->
         [title  |-> <<79,105,108>>,                               \* "Oil"
          author |-> "Ann",
          tags   |-> << [term |-> <<120>>], [term |-> <<121>>] >>, \* "x", "y"
          link   |-> "http://a/1"]
    [] b = 2 ->
         [title       |-> <<65,114,109,121,233>>,                  \* "Army" + e-acute
          description |-> <<102,105,108,109>>,                     \* "film"
          tags        |-> << [term |-> <<120>>], [label |-> <<122>>] >>, \* a tag without a term
          link        |-> "http://a/2"]
    [] b = 3 ->
         [title       |-> <<79,108,121,109,112,105,99,115>>,       \* "Olympics"
          description |-> << >>,
          link        |-> "http://a/3"]
    [] OTHER ->
         [description |-> <<79,73,76,233>>,                        \* "OIL" + e-acute
          author      |-> "Bob",
          tags        |-> << >>]

\* the entry of body b published at time k; k = 0 is an entry with no date
RawEntry(k, b) ==
  IF k = 0 THEN Body(b) ELSE ("published" :> <<k>>) @@ Body(b)

\* the entries the feeds hold: two with the same date, one of them after the
\* other has changed; one with no date; one whose tags extract_feed_entry
\* cannot join
RawEntries == { RawEntry(1, 1), RawEntry(1, 3), RawEntry(0, 1), RawEntry(1, 2) }

\* the entries of a feed whose content stays the same from fetch to fetch
FixedEntries == { RawEntry(1, 1), RawEntry(0, 3) }

\* the sequences of at most n members of S
SeqsUpTo(n, S) == UNION { [1..k -> S] : k \in 0..n }

\* what one URL serves, fetch after fetch: a well-formed document of some
\* entries, or a malformed one
Served ==
  { [bozo |-> FALSE, entries |-> entries] : entries \in SeqsUpTo(MaxEntries, FixedEntries) }
  \cup { [bozo |-> TRUE, entries |-> << RawEntry(1, 1) >>] }

FixedFeeds == [1..NumFeeds -> Served]

\* entry.get(key, default), getattr(entry, key, default)
Get(entry, key, default) == IF key \in DOMAIN entry THEN entry[key] ELSE default

NoTitle == <<78,111,32,84,105,116,108,101>>                     \* "No Title"
NoDescription == <<78,111,32,68,101,115,99,114,105,112,116,105,111,110>> \* "No Description"
Uncategorized == <<85,110,99,97,116,101,103,111,114,105,122,101,100>>    \* "Uncategorized"
UnknownDate == <<85,110,107,110,111,119,110,32,68,97,116,101>>  \* "Unknown Date"

\* extract_feed_entry raises: tag.term of a tag that has no term
ExtractRaises(entry) ==
  /\ "tags" \in DOMAIN entry
  /\ \E i \in 1..Len(entry.tags) : "term" \notin DOMAIN entry.tags[i]

\* the categories expression of extract_feed_entry
Categories(entry) ==
  IF "tags" \in DOMAIN entry
  THEN Join(<<44,32>>, [i \in 1..Len(entry.tags) |-> entry.tags[i].term])
  ELSE Uncategorized

\* extract_feed_entry(entry), where it returns
extract_feed_entry(entry) ==
  LET title == StripNonAscii(Get(entry, "title", NoTitle))
      description == StripNonAscii(Get(entry, "description", NoDescription))
      text == title \o <<32>> \o description
  IN  [title        |-> title,
       description  |-> description,
       author       |-> Get(entry, "author", "Unknown Author"),
       categories   |-> Categories(entry),
       sentiment    |-> analyze_sentiment(Polarity(text)),
       sector       |-> identify_sector(text),
       keywords     |-> extract_keywords(Ents(text)),
       published_at |-> Get(entry, "published", UnknownDate),
       link         |-> Get(entry, "link", "No Link")]

\* every entry a feed holds in some environment
AllEntries == RawEntries \cup FixedEntries \cup { RawEntry(1, 4) }

\* the entries extract_feed_entry returns for, and what it returns for each
GoodEntries == { entry \in AllEntries : ~ExtractRaises(entry) }

Extracted == [entry \in GoodEntries |-> extract_feed_entry(entry)]

(***************************************************************************)
(* The store: table blog_posts and its AUTOINCREMENT counter.              *)
(***************************************************************************)
\* the columns of blog_posts other than id
Columns(row) ==
  [title        |-> row.title,
   description  |-> row.description,
   author       |-> row.author,
   categories   |-> row.categories,
   sentiment    |-> row.sentiment,
   sector       |-> row.sector,
   keywords     |-> row.keywords,
   published_at |-> row.published_at,
   link         |-> row.link]

\* the row of id that holds rec
Row(id, rec) ==
  [id           |-> id,
   title        |-> rec.title,
   description  |-> rec.description,
   author       |-> rec.author,
   categories   |-> rec.categories,
   sentiment    |-> rec.sentiment,
   sector       |-> rec.sector,
   keywords     |-> rec.keywords,
   published_at |-> rec.published_at,
   link         |-> rec.link]

\* the state of the database file after DROP TABLE and CREATE TABLE
EmptyDb == [rows |-> {}, seq |-> 0]

\* Upsert with ON CONFLICT(published_at) DO NOTHING: the row in place is kept
UpsertKeepsOld(db, rec) ==
  LET hit == { r \in db.rows : r.published_at = rec.published_at }
  IN  [rows |-> IF hit = {} THEN db.rows \cup { Row(db.seq + 1, rec) } ELSE db.rows,
       seq  |-> db.seq + 1]

\* Upsert whose DO UPDATE SET names the title alone
UpsertTitleOnly(db, rec) ==
  LET hit == { r \in db.rows : r.published_at = rec.published_at }
  IN  [rows |-> IF hit = {}
                THEN db.rows \cup { Row(db.seq + 1, rec) }
                ELSE (db.rows \ hit) \cup { [r EXCEPT !.title = rec.title] : r \in hit },
       seq  |-> db.seq + 1]

\* DELETE FROM blog_posts before the INSERT: the store holds the last entry only
UpsertDropsOthers(db, rec) ==
  [rows |-> { Row(db.seq + 1, rec) }, seq |-> db.seq + 1]

\* INSERT OR REPLACE: the row in place is deleted and rec is inserted under
\* the rowid the statement generated
UpsertReplaces(db, rec) ==
  LET hit == { r \in db.rows : r.published_at = rec.published_at }
  IN  [rows |-> (db.rows \ hit) \cup { Row(db.seq + 1, rec) }, seq |-> db.seq + 1]

\* a plain INSERT into a table without the UNIQUE constraint
UpsertAlwaysInserts(db, rec) ==
  [rows |-> db.rows \cup { Row(db.seq + 1, rec) }, seq |-> db.seq + 1]

\* INSERT ... ON CONFLICT(published_at) DO UPDATE SET ...: a row with this
\* published_at keeps its id and takes every other column of rec; otherwise rec
\* is inserted under the rowid the statement generated.  The statement
\* generates a rowid, and advances the counter, in both cases.
Upsert(db, rec) ==
  LET hit == { r \in db.rows : r.published_at = rec.published_at }
  IN  [rows |-> IF hit = {}
                THEN db.rows \cup { Row(db.seq + 1, rec) }
                ELSE (db.rows \ hit) \cup { Row(r.id, rec) : r \in hit },
       seq  |-> db.seq + 1]

\* the statement cannot generate a rowid: SQLITE_FULL, an OperationalError
RowidExhausted(db) == db.seq >= MaxRowid

\* instr(x, q) > 0 in place of LIKE: q occurs in x, character for character
LikeExact(x, q) == Contains(x, q)

\* x LIKE '%q%': q occurs in x, letters compared without case, "_" in q
\* standing for any one character
Like(x, q) ==
  \E i \in 0..(Len(x) - Len(q)) :
     \A j \in 1..Len(q) : q[j] = 95 \/ LowerChar(q[j]) = LowerChar(x[i + j])

\* the SELECT of search: the nine columns of the rows that match
Select(db, q) ==
  { Columns(r) : r \in { x \in db.rows :
       Like(x.title, q) \/ Like(x.description, q) \/ Like(x.categories, q) } }

(***************************************************************************)
(* The search handler's treatment of its query.                            *)
(***************************************************************************)
\* the length search accepts
MaxQueryLen == 100

\* the queries the clients send
RawQueries ==
  { << >>,
    <<32>>,                                  \* " "
    <<32,111,105,108,33>>,                   \* " oil!"
    [i \in 1..(MaxQueryLen + 1) |-> 97] }    \* "aaa...a", 101 characters

\* " oil!"
OilQuery == <<32,111,105,108,33>>

\* 100 letters and a space: 101 characters
PaddedQuery == [i \in 1..(MaxQueryLen + 1) |-> IF i <= MaxQueryLen THEN 97 ELSE 32]

\* the environments of the program: the entries the feeds may hold and the
\* queries the clients send
Profiles ==
  [ base       |-> [entries |-> RawEntries, queries |-> RawQueries],
    validation |-> [entries |-> { RawEntry(1, 1) },
                    queries |-> { <<32>>, [i \in 1..(MaxQueryLen + 1) |-> 97], PaddedQuery }],
    matching   |-> [entries |-> { RawEntry(1, 1), RawEntry(0, 3) },
                    queries |-> { <<79,95,76>>, <<33>> }],           \* "O_L", "!"
    categories |-> [entries |-> { RawEntry(1, 4), RawEntry(1, 2) },
                    queries |-> { OilQuery }],
    fixed      |-> [entries |-> FixedEntries, queries |-> { OilQuery }] ]

\* the validation without its length test
InvalidQueryNoLength(query) == Len(query) = 0

\* not query or len(query) > 100
InvalidQuery(query) == Len(query) = 0 \/ Len(query) > MaxQueryLen

\* re.sub(r'[^\w\s]', '', query)
KeepChar(c) == IsWordChar(c) \/ IsSpaceChar(c)

Sanitize(query) == SelectSeq(query, KeepChar)

(***************************************************************************)
(* The threads.                                                            *)
(***************************************************************************)
Handlers == 1..NumHandlers

\* the thread Thread(target=schedule_updates) starts
SchedThread == NumHandlers + 1

\* the thread that runs the __main__ block
MainThread == NumHandlers + 2

VARIABLES
  profile,          \* the environment of the run, one of DOMAIN Profiles
  feeds_served,     \* << >>: a feed may serve any content on each fetch; or the
                    \* content each URL serves, fetch after fetch: <<[bozo, entries], ...>>
  faults,           \* the environment fails: file missing, parse and storage errors
  db,               \* blog.db as committed: [rows, seq]
  txn,              \* the scheduler connection's open transaction: << >> or <<[rows, seq]>>
  db_lock,          \* the threads that hold db_lock
  mpc,              \* where the main thread is
  spc,              \* where the scheduler thread is
  ip,               \* the statement of schedule_updates the scheduler thread is at
  registered,       \* the periodic job is in the schedule
  due,              \* the periodic job's next_run has passed
  kind,             \* how the running cycle was called: "initial", "periodic" or "none"
  rss_feed_urls,    \* fetch_blog_posts: the URLs read from the file
  feed_idx,         \* fetch_blog_posts: the position of feed_url in rss_feed_urls
  feed,             \* fetch_blog_posts: what feedparser.parse returned: [bozo, entries]
  cur,              \* fetch_blog_posts: the extracted entry: << >> or <<rec>>
  new_posts,        \* fetch_blog_posts: the counter of the feed
  total_new_posts,  \* fetch_blog_posts: the counter of the cycle
  exc,              \* fetch_blog_posts: the exception raised in the try block, or "none"
  sqlerr,           \* fetch_blog_posts: the upsert of the last entry raised OperationalError
  hpc,              \* where each request handler is
  hargs,            \* search: request.args.get('query', '') of the request in progress
  hquery,           \* search: the local variable query
  hresults,         \* search: the local variable results
  running,          \* history: the number of calls of fetch_blog_posts in progress
  initial_done,     \* history: the first call of fetch_blog_posts has returned
  log,              \* history: the entries whose upsert was committed, in order
  committed,        \* history: the entries of the feed in progress whose upsert was committed
  snapshot          \* history: << >>, or <<the rows at the end of the previous cycle>>;
                    \* kept while the feeds serve fixed content

vars == << profile, feeds_served, faults,
           db, txn, db_lock, mpc, spc, ip, registered, due, kind, rss_feed_urls,
           feed_idx, feed, cur, new_posts, total_new_posts, exc, sqlerr,
           hpc, hargs, hquery, hresults, running, initial_done, log, committed, snapshot >>

\* what the program's environment holds: it does not change during a run
env == << profile, feeds_served, faults >>

\* the entries the feeds may hold while they serve any content
feed_entries == Profiles[profile].entries

\* the query strings the clients send
client_queries == Profiles[profile].queries

hist == << committed, snapshot >>

svars == << spc, ip, registered, due, kind, rss_feed_urls, feed_idx, feed, cur,
            new_posts, total_new_posts, exc, sqlerr, running, initial_done, hist >>

hvars == << hpc, hargs, hquery, hresults >>

\* blog.db as a previous run of the program left it
StaleDb ==
  [rows |-> { Row(2, extract_feed_entry(RawEntry(0, 1))) }, seq |-> 2]

NoFeed == [bozo |-> FALSE, entries |-> 0]

\* the program at its start, whatever its environment is
Start ==
  /\ db \in {EmptyDb, StaleDb}
  /\ txn = << >>
  /\ db_lock = {}
  /\ mpc = "init_db"
  /\ spc = "off"
  /\ ip = 1
  /\ registered = FALSE
  /\ due = FALSE
  /\ kind = "none"
  /\ rss_feed_urls = << >>
  /\ feed_idx = 0
  /\ feed = NoFeed
  /\ cur = << >>
  /\ new_posts = 0
  /\ total_new_posts = 0
  /\ exc = "none"
  /\ sqlerr = FALSE
  /\ hpc = [h \in Handlers |-> "idle"]
  /\ hargs = [h \in Handlers |-> << >>]
  /\ hquery = [h \in Handlers |-> << >>]
  /\ hresults = [h \in Handlers |-> {}]
  /\ running = 0
  /\ initial_done = FALSE
  /\ log = << >>
  /\ committed = 0
  /\ snapshot = << >>

\* the base environment: feeds that may serve any of RawEntries on each fetch,
\* clients that send RawQueries, and errors of files, feeds and storage
Init ==
  /\ profile = "base"
  /\ feeds_served = << >>
  /\ faults = TRUE
  /\ Start

\* a lock that never makes its caller wait
LockAlwaysFree == TRUE

\* Lock.acquire can return: nobody holds the lock
LockFree == db_lock = {}

\* a with block that keeps the lock when it is left
WithExitKeepsLock(t) == db_lock

\* the end of `with db_lock:`, by falling off its end or by an exception:
\* thread t releases the lock
WithExit(t) == db_lock \ {t}

(***************************************************************************)
(* The main thread: the __main__ block.                                    *)
(***************************************************************************)
\* init_db: with db_lock
MainAcquire ==
  /\ mpc = "init_db"
  /\ LockFree
  /\ db_lock' = {MainThread}
  /\ mpc' = "drop_create"
  /\ UNCHANGED << env, db, txn, svars, hvars, log >>

\* init_db: DROP TABLE IF EXISTS, CREATE TABLE, commit, close
InitDb ==
  /\ mpc = "drop_create"
  /\ db' = EmptyDb
  /\ mpc' = "init_release"
  /\ UNCHANGED << env, txn, db_lock, svars, hvars, log >>

\* init_db: the end of the with block
MainRelease ==
  /\ mpc = "init_release"
  /\ db_lock' = WithExit(MainThread)
  /\ mpc' = "start_thread"
  /\ UNCHANGED << env, db, txn, svars, hvars, log >>

\* Thread(target=schedule_updates, daemon=True).start()
StartThread ==
  /\ mpc = "start_thread"
  /\ spc = "off"
  /\ spc' = "top"
  /\ mpc' = "app_run"
  /\ UNCHANGED << env, db, txn, db_lock, ip, registered, due, kind, rss_feed_urls, feed_idx,
                  feed, cur, new_posts, total_new_posts, exc, sqlerr, running,
                  initial_done, hist, hvars, log >>

\* app.run(...): the server takes requests from here on
AppRun ==
  /\ mpc = "app_run"
  /\ mpc' = "serving"
  /\ UNCHANGED << env, db, txn, db_lock, svars, hvars, log >>

(***************************************************************************)
(* The scheduler thread: schedule_updates and fetch_blog_posts.            *)
(***************************************************************************)
\* the local variables of fetch_blog_posts
cyc == << rss_feed_urls, feed_idx, feed, cur, new_posts, total_new_posts, exc, sqlerr >>

\* the state of schedule_updates and of the schedule
sch == << ip, registered, due, kind, running, initial_done >>

\* the state the scheduler thread leaves alone outside its upserts
rest == << db, txn, db_lock, mpc, hvars, log >>

\* schedule_updates with the job registered before the first fetch
RegisterBeforeFetch == << "every_5_minutes_do", "fetch_blog_posts", "run_loop" >>

\* the statements of schedule_updates, in order
ScheduleUpdatesSteps == << "fetch_blog_posts", "every_5_minutes_do", "run_loop" >>

\* fetch_blog_posts without its try block: the exception ends the thread
ExceptionUncaught == "dead"

\* where an exception raised in the try block of fetch_blog_posts goes:
\* the handler `except Exception`
ExceptionTarget == "except"

\* the upsert without `except sqlite3.OperationalError`: the error leaves the
\* loops for the outer handler
OperationalErrorUncaught == "except"

\* where an sqlite3.OperationalError raised by execute or commit goes: the
\* handler `except sqlite3.OperationalError`, and on to the finally block
OperationalErrorTarget == "close"

\* the loop without the bozo test
NeverSkipFeed(parsed) == FALSE

\* `if feed.bozo: continue`
SkipFeed(parsed) == parsed.bozo

\* a timer that starts the job when it is due, wherever the thread is
JobRunnableAnywhere == due

\* schedule.run_pending() runs the job: the loop of schedule_updates is at
\* run_pending and the job's next_run has passed
JobRunnable == spc = "run_pending" /\ due

\* cursor.rowcount after the upsert statement: one row inserted or updated
Rowcount(before, rec) == 1

\* fetch_blog_posts(), called directly by schedule_updates
InitialFetch ==
  /\ spc = "top"
  /\ ScheduleUpdatesSteps[ip] = "fetch_blog_posts"
  /\ spc' = "read_urls"
  /\ kind' = "initial"
  /\ running' = running + 1
  /\ UNCHANGED << env, hist, ip, registered, due, initial_done, cyc, rest >>

\* schedule.every(5).minutes.do(fetch_blog_posts)
RegisterJob ==
  /\ spc = "top"
  /\ ScheduleUpdatesSteps[ip] = "every_5_minutes_do"
  /\ registered' = TRUE
  /\ due' = FALSE
  /\ ip' = ip + 1
  /\ UNCHANGED << env, hist, spc, kind, running, initial_done, cyc, rest >>

\* while True:
EnterLoop ==
  /\ spc = "top"
  /\ ScheduleUpdatesSteps[ip] = "run_loop"
  /\ spc' = "run_pending"
  /\ UNCHANGED << env, hist, sch, cyc, rest >>

\* five minutes have passed since the job was scheduled or last run
PeriodElapses ==
  /\ registered
  /\ ~due
  /\ due' = TRUE
  /\ UNCHANGED << env, hist, spc, ip, registered, kind, running, initial_done, cyc, rest >>

\* schedule.run_pending(), the job being due: it calls fetch_blog_posts
RunJob ==
  /\ JobRunnable
  /\ spc' = "read_urls"
  /\ kind' = "periodic"
  /\ running' = running + 1
  /\ UNCHANGED << env, hist, ip, registered, due, initial_done, cyc, rest >>

\* schedule.run_pending(), no job being due
NoJobPending ==
  /\ spc = "run_pending"
  /\ ~due
  /\ spc' = "sleep"
  /\ UNCHANGED << env, hist, sch, cyc, rest >>

\* time.sleep(1)
Sleep ==
  /\ spc = "sleep"
  /\ spc' = "run_pending"
  /\ UNCHANGED << env, hist, sch, cyc, rest >>

\* read_rss_feed_urls finds no file, or no URL in it: fetch_blog_posts returns
NoUrls ==
  /\ spc = "read_urls"
  /\ faults
  /\ rss_feed_urls' = << >>
  /\ feed_idx' = 1
  /\ spc' = "done"
  /\ UNCHANGED << env, hist, feed, cur, new_posts, total_new_posts, exc, sqlerr, sch, rest >>

\* read_rss_feed_urls returns the URLs; the try block begins
ReadUrls ==
  /\ spc = "read_urls"
  /\ rss_feed_urls' = [i \in 1..NumFeeds |-> i]
  /\ feed_idx' = 1
  /\ total_new_posts' = 0
  /\ spc' = "for_feed"
  /\ UNCHANGED << env, hist, feed, cur, new_posts, exc, sqlerr, sch, rest >>

\* for feed_url in rss_feed_urls: feedparser.parse(feed_url) returns
ParseFeed ==
  /\ spc = "for_feed"
  /\ feed_idx <= Len(rss_feed_urls)
  /\ IF feeds_served = << >>
     THEN \E b \in BOOLEAN, n \in 0..MaxEntries : feed' = [bozo |-> b, entries |-> n]
     ELSE feed' = [bozo    |-> feeds_served[rss_feed_urls[feed_idx]].bozo,
                   entries |-> Len(feeds_served[rss_feed_urls[feed_idx]].entries)]
  /\ spc' = "check_bozo"
  /\ UNCHANGED << env, hist, rss_feed_urls, feed_idx, cur, new_posts, total_new_posts, exc,
                  sqlerr, sch, rest >>

\* for feed_url in rss_feed_urls: feedparser.parse(feed_url) raises
ParseRaises ==
  /\ spc = "for_feed"
  /\ faults
  /\ feed_idx <= Len(rss_feed_urls)
  /\ exc' = "feed"
  /\ spc' = ExceptionTarget
  /\ UNCHANGED << env, hist, rss_feed_urls, feed_idx, feed, cur, new_posts, total_new_posts,
                  sqlerr, sch, rest >>

\* the loop over the URLs ends: the total is printed
FeedsExhausted ==
  /\ spc = "for_feed"
  /\ feed_idx > Len(rss_feed_urls)
  /\ spc' = "done"
  /\ UNCHANGED << env, hist, cyc, sch, rest >>

\* if feed.bozo: continue
BozoSkip ==
  /\ spc = "check_bozo"
  /\ SkipFeed(feed)
  /\ feed_idx' = feed_idx + 1
  /\ spc' = "for_feed"
  /\ UNCHANGED << env, hist, rss_feed_urls, feed, cur, new_posts, total_new_posts, exc, sqlerr,
                  sch, rest >>

\* new_posts = 0, and on to the entries
BeginEntries ==
  /\ spc = "check_bozo"
  /\ ~SkipFeed(feed)
  /\ new_posts' = 0
  /\ committed' = 0
  /\ spc' = "for_entry"
  /\ UNCHANGED << env, snapshot, rss_feed_urls, feed_idx, feed, cur, total_new_posts, exc, sqlerr,
                  sch, rest >>

\* the entries the loop over feed.entries may come to next
Offered ==
  IF feeds_served = << >>
  THEN feed_entries
  ELSE LET entries == feeds_served[rss_feed_urls[feed_idx]].entries
       IN  { entries[Len(entries) - feed.entries + 1] }

\* for entry in feed.entries: extract_feed_entry(entry) returns
ExtractEntry ==
  /\ spc = "for_entry"
  /\ feed.entries > 0
  /\ \E entry \in Offered \cap GoodEntries : cur' = << Extracted[entry] >>
  /\ feed' = [feed EXCEPT !.entries = @ - 1]
  /\ spc' = "acquire"
  /\ UNCHANGED << env, hist, rss_feed_urls, feed_idx, new_posts, total_new_posts, exc, sqlerr,
                  sch, rest >>

\* for entry in feed.entries: extract_feed_entry(entry) raises
ExtractFails ==
  /\ spc = "for_entry"
  /\ feed.entries > 0
  /\ \E entry \in Offered : ExtractRaises(entry)
  /\ feed' = [feed EXCEPT !.entries = @ - 1]
  /\ exc' = "entry"
  /\ spc' = ExceptionTarget
  /\ UNCHANGED << env, hist, rss_feed_urls, feed_idx, cur, new_posts, total_new_posts, sqlerr,
                  sch, rest >>

\* the loop over the entries ends: total_new_posts += new_posts
FeedDone ==
  /\ spc = "for_entry"
  /\ feed.entries = 0
  /\ total_new_posts' = total_new_posts + new_posts
  /\ new_posts' = 0
  /\ committed' = 0
  /\ feed_idx' = feed_idx + 1
  /\ spc' = "for_feed"
  /\ UNCHANGED << env, snapshot, rss_feed_urls, feed, cur, exc, sqlerr, sch, rest >>

\* with db_lock: sqlite3.connect, conn.cursor
SchedAcquire ==
  /\ spc = "acquire"
  /\ LockFree
  /\ db_lock' = {SchedThread}
  /\ spc' = "execute"
  /\ UNCHANGED << env, hist, db, txn, mpc, hvars, log, cyc, sch >>

\* cursor.execute(INSERT ... ON CONFLICT ...) succeeds; if cursor.rowcount > 0
Execute ==
  /\ spc = "execute"
  /\ ~RowidExhausted(db)
  /\ txn' = << Upsert(db, cur[1]) >>
  /\ new_posts' = IF Rowcount(db, cur[1]) > 0 THEN new_posts + 1 ELSE new_posts
  /\ spc' = "commit"
  /\ UNCHANGED << env, hist, rss_feed_urls, feed_idx, feed, cur, total_new_posts, exc, sqlerr,
                  sch, db, db_lock, mpc, hvars, log >>

\* cursor.execute raises sqlite3.OperationalError
ExecuteFails ==
  /\ spc = "execute"
  /\ faults \/ RowidExhausted(db)
  /\ sqlerr' = TRUE
  /\ spc' = OperationalErrorTarget
  /\ UNCHANGED << env, hist, rss_feed_urls, feed_idx, feed, cur, new_posts, total_new_posts, exc,
                  sch, rest >>

\* conn.commit() succeeds
Commit ==
  /\ spc = "commit"
  /\ db' = txn[1]
  /\ txn' = << >>
  /\ log' = Append(log, cur[1])
  /\ committed' = committed + 1
  /\ spc' = "close"
  /\ UNCHANGED << env, snapshot, db_lock, mpc, hvars, cyc, sch >>

\* conn.commit() raises sqlite3.OperationalError
CommitFails ==
  /\ spc = "commit"
  /\ faults
  /\ sqlerr' = TRUE
  /\ spc' = OperationalErrorTarget
  /\ UNCHANGED << env, hist, rss_feed_urls, feed_idx, feed, cur, new_posts, total_new_posts, exc,
                  sch, rest >>

\* finally: conn.close(), which drops what was not committed; the with block ends
Close ==
  /\ spc = "close"
  /\ txn' = << >>
  /\ db_lock' = WithExit(SchedThread)
  /\ cur' = << >>
  /\ sqlerr' = FALSE
  /\ spc' = "for_entry"
  /\ UNCHANGED << env, hist, rss_feed_urls, feed_idx, feed, new_posts, total_new_posts, exc,
                  sch, db, mpc, hvars, log >>

\* except Exception as e: the error is printed
Except ==
  /\ spc = "except"
  /\ spc' = "done"
  /\ UNCHANGED << env, hist, cyc, sch, rest >>

\* fetch_blog_posts returns: to schedule_updates, or to the schedule, which
\* sets the job's next_run
Return ==
  /\ spc = "done"
  /\ running' = running - 1
  /\ initial_done' = TRUE
  /\ kind' = "none"
  /\ IF kind = "periodic"
     THEN /\ due' = FALSE
          /\ spc' = "sleep"
          /\ ip' = ip
     ELSE /\ due' = due
          /\ spc' = "top"
          /\ ip' = ip + 1
  /\ rss_feed_urls' = << >>
  /\ feed_idx' = 0
  /\ feed' = NoFeed
  /\ cur' = << >>
  /\ new_posts' = 0
  /\ total_new_posts' = 0
  /\ exc' = "none"
  /\ sqlerr' = FALSE
  /\ committed' = 0
  /\ snapshot' = IF feeds_served = << >> THEN << >> ELSE << db.rows >>
  /\ UNCHANGED << env, registered, rest >>

(***************************************************************************)
(* The request handlers: search.                                           *)
(***************************************************************************)
others == << db, txn, mpc, svars, log >>

\* a request arrives whose query is empty or too long: the 400 reply is chosen
SearchRejects(h) ==
  /\ mpc = "serving"
  /\ hpc[h] = "idle"
  /\ \E raw \in client_queries :
        /\ InvalidQuery(Strip(raw))
        /\ hargs' = [hargs EXCEPT ![h] = raw]
  /\ hpc' = [hpc EXCEPT ![h] = "reject"]
  /\ UNCHANGED << env, hquery, hresults, db_lock, others >>

\* return jsonify({"error": ...}), 400
SearchReplies400(h) ==
  /\ hpc[h] = "reject"
  /\ hargs' = [hargs EXCEPT ![h] = << >>]
  /\ hpc' = [hpc EXCEPT ![h] = "idle"]
  /\ UNCHANGED << env, hquery, hresults, db_lock, others >>

\* a request arrives whose query is accepted: the query is sanitized
SearchAccepts(h) ==
  /\ mpc = "serving"
  /\ hpc[h] = "idle"
  /\ \E raw \in client_queries :
        /\ ~InvalidQuery(Strip(raw))
        /\ hargs' = [hargs EXCEPT ![h] = raw]
        /\ hquery' = [hquery EXCEPT ![h] = Sanitize(Strip(raw))]
  /\ hpc' = [hpc EXCEPT ![h] = "acquire"]
  /\ UNCHANGED << env, hresults, db_lock, others >>

\* with db_lock: sqlite3.connect, conn.cursor
SearchAcquire(h) ==
  /\ hpc[h] = "acquire"
  /\ LockFree
  /\ db_lock' = {h}
  /\ hpc' = [hpc EXCEPT ![h] = "select"]
  /\ UNCHANGED << env, hargs, hquery, hresults, others >>

\* cursor.execute(SELECT ...), cursor.fetchall(), conn.close()
SearchSelect(h) ==
  /\ hpc[h] = "select"
  /\ hresults' = [hresults EXCEPT ![h] = Select(db, hquery[h])]
  /\ hpc' = [hpc EXCEPT ![h] = "release"]
  /\ UNCHANGED << env, hargs, hquery, db_lock, others >>

\* cursor.execute raises: the with block ends, the request fails
SearchFails(h) ==
  /\ hpc[h] = "select"
  /\ faults
  /\ db_lock' = WithExit(h)
  /\ hargs' = [hargs EXCEPT ![h] = << >>]
  /\ hquery' = [hquery EXCEPT ![h] = << >>]
  /\ hpc' = [hpc EXCEPT ![h] = "idle"]
  /\ UNCHANGED << env, hresults, others >>

\* the with block ends; return jsonify(results)
SearchRelease(h) ==
  /\ hpc[h] = "release"
  /\ db_lock' = WithExit(h)
  /\ hargs' = [hargs EXCEPT ![h] = << >>]
  /\ hquery' = [hquery EXCEPT ![h] = << >>]
  /\ hresults' = [hresults EXCEPT ![h] = {}]
  /\ hpc' = [hpc EXCEPT ![h] = "idle"]
  /\ UNCHANGED << env, others >>

(***************************************************************************)
(* The program.                                                            *)
(***************************************************************************)
Main == MainAcquire \/ InitDb \/ MainRelease \/ StartThread \/ AppRun

Scheduler ==
  \/ InitialFetch \/ RegisterJob \/ EnterLoop \/ RunJob \/ NoJobPending \/ Sleep
  \/ NoUrls \/ ReadUrls \/ ParseFeed \/ ParseRaises \/ FeedsExhausted
  \/ BozoSkip \/ BeginEntries \/ ExtractEntry \/ ExtractFails \/ FeedDone
  \/ SchedAcquire \/ Execute \/ ExecuteFails \/ Commit \/ CommitFails \/ Close
  \/ Except \/ Return

Search(h) ==
  \/ SearchRejects(h) \/ SearchReplies400(h) \/ SearchAccepts(h)
  \/ SearchAcquire(h) \/ SearchSelect(h) \/ SearchFails(h) \/ SearchRelease(h)

Next == Main \/ Scheduler \/ PeriodElapses \/ (\E h \in Handlers : Search(h))

Spec == Init /\ [][Next]_vars

\* the program in its other environments: other feeds and clients, or feeds
\* whose content never changes in an environment that does not fail
WideInit ==
  /\ \/ /\ profile \in {"validation", "matching", "categories"}
        /\ feeds_served = << >>
        /\ faults = TRUE
     \/ /\ profile = "fixed"
        /\ feeds_served \in FixedFeeds
        /\ faults = FALSE
  /\ Start

WideSpec == WideInit /\ [][Next]_vars

(***************************************************************************)
(* The properties.                                                         *)
(***************************************************************************)
Threads == Handlers \cup {SchedThread, MainThread}

\* init_db has re-created the table
StoreInitialized == mpc \notin {"init_db", "drop_create"}

\* the published_at values of the committed upserts
UpsertedKeys == { log[i].published_at : i \in 1..Len(log) }

\* the entry of the most recent committed upsert with published_at k
LastUpsert(k) ==
  LET last == CHOOSE i \in 1..Len(log) :
                /\ log[i].published_at = k
                /\ \A j \in (i + 1)..Len(log) : log[j].published_at # k
  IN  log[last]

\* C1: once the store is initialized, it holds exactly one record per
\* published_at value that was successfully upserted, and no other record; the
\* record's title, description, author, categories, sentiment, sector, keywords
\* and link are those of the most recent successful upsert with that published_at.
C1_OneRecordPerPublishedAt ==
  StoreInitialized =>
    /\ \A k \in UpsertedKeys :
          /\ Cardinality({ r \in db.rows : r.published_at = k }) = 1
          /\ \A r \in db.rows : r.published_at = k => Columns(r) = LastUpsert(k)
    /\ \A r \in db.rows : r.published_at \in UpsertedKeys

\* an entry was upserted over another one with the same published_at and
\* another title
C1_Witness ==
  \E i, j \in 1..Len(log) :
     /\ i < j
     /\ log[i].published_at = log[j].published_at
     /\ log[i].title # log[j].title

\* the thread is between taking db_lock and giving it back
InStoreSection(t) ==
  IF t = MainThread THEN mpc \in {"drop_create", "init_release"}
  ELSE IF t = SchedThread THEN spc \in {"execute", "commit", "close"}
  ELSE hpc[t] \in {"select", "release"}

C3_SearchSeesWholeRows ==
  /\ StoreInitialized => Cardinality(db.rows) = Cardinality(UpsertedKeys)
  /\ \A h \in Handlers :
        hpc[h] = "release" =>
          \A rec \in hresults[h] :
             /\ \E i \in 1..Len(log) : rec = log[i]
             /\ rec \in { Columns(r) : r \in db.rows }

\* a search returned the one record of the store while the scheduler waits
\* for the lock to upsert an entry with another published_at
C3_Witness ==
  /\ Len(log) = 1
  /\ spc = "acquire"
  /\ cur[1].published_at # log[1].published_at
  /\ \E h \in Handlers : hpc[h] = "release" /\ hresults[h] = { log[1] }

\* C4 (as claimed): an error raised while one feed is fetched is that feed's
\* failure only: when the cycle ends after such an error, no URL after the
\* failed one was left unfetched.
C4_FeedErrorIsolated ==
  (spc = "done" /\ exc = "feed") => feed_idx >= Len(rss_feed_urls)

C6_EntryErrorIsolated ==
  (spc = "done" /\ exc = "entry") =>
     (feed.entries = 0 /\ feed_idx >= Len(rss_feed_urls))

\* C7: entries are processed of feeds without bozo only; the step after a
\* parse that reports bozo goes to the next URL and changes neither the store
\* nor the open transaction; within a cycle the position in the URL list
\* never moves back, so no URL is fetched again.
C7_BozoFeedSkipped ==
  /\ [](spc \in {"for_entry", "acquire", "execute", "commit", "close"} => ~feed.bozo)
  /\ [][ /\ (spc = "check_bozo" /\ feed.bozo /\ spc' # spc) =>
              /\ spc' = "for_feed"
              /\ feed_idx' = feed_idx + 1
              /\ db' = db
              /\ txn' = txn
              /\ log' = log
         /\ (rss_feed_urls # << >> /\ rss_feed_urls' = rss_feed_urls) =>
              feed_idx' >= feed_idx ]_vars

\* a feed that reported bozo, and held entries, was skipped and the loop is at
\* the next URL
C7_Witness ==
  /\ spc = "for_feed"
  /\ feed.bozo
  /\ feed.entries > 0
  /\ feed_idx = 2
  /\ feed_idx <= Len(rss_feed_urls)

C9_InitialCycleFirst ==
  /\ (registered \/ due \/ kind = "periodic") => initial_done
  /\ kind = "initial" => (~registered /\ running = 1)

\* the job is being registered after an initial cycle that upserted an entry
C9_Witness ==
  /\ spc = "top"
  /\ ScheduleUpdatesSteps[ip] = "every_5_minutes_do"
  /\ initial_done
  /\ ~registered
  /\ Len(log) > 0

(***************************************************************************)
(* Fairness: every thread that can take a step takes one, the period        *)
(* elapses, and a thread that waits for db_lock gets it if it is free again *)
(* and again (every holder keeps it for one statement).                     *)
(***************************************************************************)
FairSpec ==
  /\ Spec
  /\ WF_vars(Main)
  /\ WF_vars(Scheduler)
  /\ SF_vars(SchedAcquire)
  /\ WF_vars(PeriodElapses)
  /\ \A h \in Handlers : WF_vars(SearchSelect(h) \/ SearchFails(h) \/ SearchRelease(h))
  /\ \A h \in Handlers : SF_vars(SearchAcquire(h))

C12_EmptyOrLongQueryNotExecuted ==
  \A h \in Handlers :
     (Len(hargs[h]) = 0 \/ Len(hargs[h]) > MaxQueryLen) => hpc[h] \in {"idle", "reject"}

\* C12 (amended): a request whose query parameter, its surrounding whitespace
\* stripped, is empty or longer than 100 characters gets the 400 reply: its
\* handler goes from the validation to the reply and back, holds no lock and
\* has read no record.
C12_StrippedQueryNotExecuted ==
  /\ [](\A h \in Handlers :
          (hpc[h] # "idle" /\ (Len(Strip(hargs[h])) = 0 \/ Len(Strip(hargs[h])) > MaxQueryLen))
             => (hpc[h] = "reject" /\ h \notin db_lock /\ hresults[h] = {}))
  /\ [][\A h \in Handlers :
          hpc[h] = "reject" => (hpc'[h] \in {"reject", "idle"} /\ hresults'[h] = {}
                                /\ h \notin db_lock')]_vars

\* a query of 101 letters is at the 400 reply while the scheduler thread is
\* in an upsert
C12_Witness ==
  /\ spc = "commit"
  /\ \E h \in Handlers :
        /\ hpc[h] = "reject"
        /\ Len(Strip(hargs[h])) > MaxQueryLen

\* the records of the store that hold q in one of the three fields, character
\* for character
HoldExactly(q) ==
  { Columns(r) : r \in { x \in db.rows :
       Contains(x.title, q) \/ Contains(x.description, q) \/ Contains(x.categories, q) } }

\* C13 (as claimed): the result of a search is exactly the records whose
\* title, description or categories contains the query as a case-sensitive
\* substring.
C13_CaseSensitiveSubstring ==
  \A h \in Handlers : hpc[h] = "release" => hresults[h] = HoldExactly(hquery[h])

\* characters a and b are the same but for the case of an ASCII letter
SameFold(a, b) ==
  LET Up(c) == IF c \in 97..122 THEN c - 32 ELSE c
  IN  Up(a) = Up(b)

\* q occurs in x, an underscore of q standing for any one character and
\* ASCII letters compared without case
Matches(x, q) ==
  \E i \in 0..(Len(x) - Len(q)) :
     \A j \in 1..Len(q) : q[j] = 95 \/ SameFold(q[j], x[i + j])

\* C13 (amended): the result of a search is exactly the records whose title,
\* description or categories contains the query as a substring in which
\* ASCII letters compare without case and each underscore of the query
\* stands for any one character.
C13_CaseInsensitiveSubstring ==
  \A h \in Handlers :
     hpc[h] = "release" =>
        hresults[h] = { Columns(r) : r \in { x \in db.rows :
                           \/ Matches(x.title, hquery[h])
                           \/ Matches(x.description, hquery[h])
                           \/ Matches(x.categories, hquery[h]) } }

\* the store holds two records and the search for "O_L" has found one
C13_Witness ==
  /\ Cardinality(db.rows) = 2
  /\ \E h \in Handlers :
        /\ hpc[h] = "release"
        /\ hquery[h] = <<79,95,76>>
        /\ Cardinality(hresults[h]) = 1

\* the id and the key of every row
IdsAndKeys(rows) == { [id |-> r.id, published_at |-> r.published_at] : r \in rows }

Keys(rows) == { r.published_at : r \in rows }

\* C15: once init_db has run, a step that writes the store keeps every row
\* under its id and its key; if the key of the upsert was in the store it adds
\* no row; if not, it adds one row, whose id is greater than the id of every
\* row of the store (rows are never removed, so these are all the ids
\* assigned since init_db).
C15_IdsFreshAndStable ==
  [][(StoreInitialized /\ db' # db) =>
        /\ IdsAndKeys(db.rows) \subseteq IdsAndKeys(db'.rows)
        /\ IF cur[1].published_at \in Keys(db.rows)
           THEN IdsAndKeys(db'.rows) = IdsAndKeys(db.rows)
           ELSE /\ Cardinality(db'.rows) = Cardinality(db.rows) + 1
                /\ \A new \in db'.rows \ db.rows : \A old \in db.rows : new.id > old.id]_vars

\* a record was inserted and then overwritten: it has the id of the insert,
\* while the counter has moved on
C15_Witness ==
  /\ StoreInitialized
  /\ Len(log) = 2
  /\ log[1].published_at = log[2].published_at
  /\ log[1] # log[2]
  /\ \E r \in db.rows : r.id = 1 /\ Columns(r) = log[2]
  /\ db.seq = 2

\* C16: once init_db has run, the store changes only in the commit of an
\* upsert by the scheduler thread, which leaves the records of other keys as
\* they are; no step of a search handler changes it; and no key leaves it.
C16_OnlyUpsertWrites ==
  [][StoreInitialized =>
        /\ Keys(db.rows) \subseteq Keys(db'.rows)
        /\ (\E h \in Handlers : hpc'[h] # hpc[h]) => db' = db
        /\ db' # db =>
              /\ spc = "commit" /\ spc' = "close"
              /\ db_lock = {SchedThread}
              /\ \A r \in db.rows : r.published_at # cur[1].published_at => r \in db'.rows]_vars

\* a search has read a store of two records and is about to reply
C16_Witness ==
  /\ Cardinality(db.rows) = 2
  /\ spc \notin {"execute", "commit", "close"}
  /\ \E h \in Handlers : hpc[h] = "release" /\ Cardinality(hresults[h]) = 2

\* C17: when the loop over a feed's entries ends and the count of the feed is
\* reported and added to the total, the count is the number of the feed's
\* entries whose upsert was committed.
C17_CountsCommittedEntries ==
  (spc = "for_entry" /\ feed.entries = 0) => new_posts = committed

\* the reference classifier: the first sector, in table order, one of whose
\* triggers occurs in the text, letters compared without case
RECURSIVE ReferenceSector(_, _)
ReferenceSector(text, i) ==
  IF i > Len(sectors) THEN "General"
  ELSE IF \E k \in 1..Len(sectors[i].keywords) :
             Contains(Lower(text), Lower(sectors[i].keywords[k]))
       THEN sectors[i].sector
       ELSE ReferenceSector(text, i + 1)

\* C18: the sector extract_feed_entry gives an entry is the sector the
\* reference classifier gives the entry's text, its title and description.
C18_SectorIsReferenceSector ==
  cur # << >> =>
     cur[1].sector = ReferenceSector(cur[1].title \o <<32>> \o cur[1].description, 1)

\* the categories the claim gives an entry: its tag terms joined by ", " if
\* it has a tag, "Uncategorized" if it has none
ClaimedCategories(entry) ==
  IF "tags" \in DOMAIN entry /\ Len(entry.tags) >= 1
  THEN Join(<<44,32>>, [i \in 1..Len(entry.tags) |-> entry.tags[i].term])
  ELSE Uncategorized

\* C19: the categories of an extracted entry are never the empty string:
\* they are the tag terms joined by ", " if the entry has a tag, and
\* "Uncategorized" if its tags are absent or an empty list.
C19_CategoriesOrUncategorized ==
  cur # << >> =>
     /\ cur[1].categories # << >>
     /\ \A entry \in feed_entries \cap GoodEntries :
           cur[1] = Extracted[entry] => cur[1].categories = ClaimedCategories(entry)

\* C20: the query a search matches against the store, the sanitized one, is
\* never the empty string.
C20_MatchedQueryNotEmpty ==
  \A h \in Handlers : hpc[h] \in {"acquire", "select", "release"} => hquery[h] # << >>
====
